---- MODULE Spec2Model ----
(***************************************************************************)
(* A model of src/lib.rs: the Universe of Conway's Game of Life on a torus. *)
(* The universe is a width, a height and a FixedBitSet of cells, flattened  *)
(* row by row.  Each public method is one action; the pure parts of the     *)
(* methods are operators that compute what the Rust code computes, loop by  *)
(* loop.  Widths, heights and indices stay far below 2^32, where the u32    *)
(* arithmetic of the code is exact; hardcoded_64_by_64 is not modelled.     *)
(***************************************************************************)
EXTENDS Integers, FiniteSets, Sequences, TLC

VARIABLES
    width,      \* Universe.width
    height,     \* Universe.height
    cells,      \* Universe.cells: a function 0..len-1 -> BOOLEAN
    state,      \* "unbuilt" before a constructor ran, "live", or "panicked"
    op          \* the name of the last method called

vars == <<width, height, cells, state, op>>

----------------------------------------------------------------------------
(* Bounds of the model. *)

\* Widths, heights and coordinates passed to the methods range over 0..MaxDim.
MaxDim == 3
\* The general specification keeps width * height <= MaxSize.
MaxSize == 6
\* set_cells is called with lists of at most MaxList pairs.
MaxList == 1
\* The board specification builds boards of 3..MaxBoard rows and columns.
MaxBoard == 6

----------------------------------------------------------------------------
(* FixedBitSet, as the methods use it. *)

\* The number of bits of the set.
len(bs) == Cardinality(DOMAIN bs)

\* FixedBitSet::with_capacity(size): size bits, all false.
with_capacity(size) == [i \in 0..(size - 1) |-> FALSE]

\* FixedBitSet::grow(size): grows to size bits, the new bits false; a
\* size that is not larger than the current length changes nothing.
grow(bs, size) ==
    IF size > len(bs)
    THEN [i \in 0..(size - 1) |-> IF i < len(bs) THEN bs[i] ELSE FALSE]
    ELSE bs

\* FixedBitSet::set(bit, enabled) panics unless bit < len.
set_ok(bs, bit) == bit < len(bs)
set(bs, bit, enabled) == [bs EXCEPT ![bit] = enabled]

\* self.cells[idx]: a bit outside the set reads as false.
get(bs, idx) == IF idx \in DOMAIN bs THEN bs[idx] ELSE FALSE

----------------------------------------------------------------------------
(* Indexing and neighbour counting. *)

get_index(w, row, column) == row * w + column

\* A slip of deltas: n where the code has n - 1.
deltas_off_by_one(n) == <<n, 0, 1>>

\* [self.height - 1, 0, 1] and [self.width - 1, 0, 1]
deltas(n) == <<n - 1, 0, 1>>

\* The 9 iterations of the two nested loops, numbered k = 0..8 in the
\* order the code runs them: delta_row is deltas(h)[k \div 3 + 1],
\* delta_col is deltas(w)[k % 3 + 1].
neighbor_idx(w, h, row, column, k) ==
    LET delta_row == deltas(h)[(k \div 3) + 1]
        delta_col == deltas(w)[(k % 3) + 1]
        neighbor_row == (row + delta_row) % h
        neighbor_col == (column + delta_col) % w
    IN  get_index(w, neighbor_row, neighbor_col)

\* if delta_row == 0 && delta_col == 0 { continue; }
skipped(w, h, k) ==
    deltas(h)[(k \div 3) + 1] = 0 /\ deltas(w)[(k % 3) + 1] = 0

RECURSIVE count_from(_, _, _, _, _, _)
count_from(w, h, bs, row, column, k) ==
    IF k = 9 THEN 0
    ELSE (IF ~skipped(w, h, k) /\ get(bs, neighbor_idx(w, h, row, column, k))
          THEN 1 ELSE 0)
         + count_from(w, h, bs, row, column, k + 1)

live_neighbor_count(w, h, bs, row, column) ==
    count_from(w, h, bs, row, column, 0)

----------------------------------------------------------------------------
(* tick *)

\* A slip of next_cell: a live cell with three live neighbours dies of
\* overpopulation (x >= 3 where the code has x > 3).
next_cell_overcrowded(cell, live_neighbors) ==
    IF cell /\ live_neighbors < 2 THEN FALSE
    ELSE IF cell /\ live_neighbors = 2 THEN TRUE
    ELSE IF cell /\ live_neighbors >= 3 THEN FALSE
    ELSE IF ~cell /\ live_neighbors = 3 THEN TRUE
    ELSE cell

\* The match of tick, arm by arm, in the order of the source.
next_cell(cell, live_neighbors) ==
    IF cell /\ live_neighbors < 2 THEN FALSE
    ELSE IF cell /\ (live_neighbors = 2 \/ live_neighbors = 3) THEN TRUE
    ELSE IF cell /\ live_neighbors > 3 THEN FALSE
    ELSE IF ~cell /\ live_neighbors = 3 THEN TRUE
    ELSE cell

\* A slip of scan_source: the scan reads the buffer it writes (an update
\* in place).
scan_source_in_place(current, next) == next

\* The buffer the scan reads the cell and its neighbours from: self.cells,
\* never the buffer `next` it writes to.
scan_source(current, next) == current

\* The inner loop of tick, for col in col..width of one row.  The buffer
\* after the write of a cell is bound as a value (written) before the
\* loop goes on, as the code holds it.
RECURSIVE scan_cols(_, _, _, _, _, _)
scan_cols(w, h, current, next, row, col) ==
    IF col >= w THEN next
    ELSE LET idx == get_index(w, row, col)
             from == scan_source(current, next)
             cell == get(from, idx)
             live_neighbors == live_neighbor_count(w, h, from, row, col)
         IN  CHOOSE result \in
                 {scan_cols(w, h, current, written, row, col + 1) :
                     written \in {set(next, idx, next_cell(cell, live_neighbors))}} :
                 TRUE

\* The outer loop of tick, for row in row..height.
RECURSIVE scan_rows(_, _, _, _, _)
scan_rows(w, h, current, next, row) ==
    IF row >= h THEN next
    ELSE CHOOSE result \in
             {scan_rows(w, h, current, done, row + 1) :
                 done \in {scan_cols(w, h, current, next, row, 0)}} :
             TRUE

\* let mut next = self.cells.clone(); the two loops; self.cells = next;
tick_cells(w, h, bs) ==
    CHOOSE result \in {scan_rows(w, h, current, current, 0) : current \in {bs}} :
        TRUE

----------------------------------------------------------------------------
(* Resizing *)

\* A slip of reset: the loop left out, so that only the bits grow adds
\* are dead.
reset_left_out(bs, size) == bs

\* for i in 0..size { self.cells.set(i, false); }
reset(bs, size) == [i \in DOMAIN bs |-> IF i < size THEN FALSE ELSE bs[i]]

\* self.cells.grow(size), then the reset loop.
resize_cells(bs, size) == reset(grow(bs, size), size)

----------------------------------------------------------------------------
(* Seeding *)

\* A slip of neighbourhood: the pattern written column by column.
neighbourhood_by_column ==
    << FALSE, TRUE,  FALSE,
       TRUE,  FALSE, FALSE,
       TRUE,  TRUE,  TRUE >>

neighbourhood ==
    << FALSE, TRUE,  TRUE,
       TRUE,  FALSE, TRUE,
       FALSE, FALSE, TRUE >>

\* new_glider_at computes % self.height and % self.width (and, before
\* that, self.height - 1 and self.width - 1 in u32): with a zero
\* dimension every build panics, on the subtraction or on the remainder.
glider_ok(w, h) == w > 0 /\ h > 0

\* The 9 writes of new_glider_at from write k on, in the order of the loops.
RECURSIVE glider_from(_, _, _, _, _, _)
glider_from(w, h, bs, row, column, k) ==
    IF k = 9 THEN bs
    ELSE glider_from(w, h,
                     set(bs, neighbor_idx(w, h, row, column, k),
                         neighbourhood[k + 1]),
                     row, column, k + 1)

glider_cells(w, h, bs, row, column) == glider_from(w, h, bs, row, column, 0)

\* The loop of set_cells from pair k on: the bits written so far and
\* whether a set panicked.
RECURSIVE set_cells_from(_, _, _, _)
set_cells_from(w, bs, list, k) ==
    IF k > Len(list) THEN [ok |-> TRUE, cells |-> bs]
    ELSE LET idx == get_index(w, list[k][1], list[k][2])
         IN  IF set_ok(bs, idx)
             THEN set_cells_from(w, set(bs, idx, TRUE), list, k + 1)
             ELSE [ok |-> FALSE, cells |-> bs]

----------------------------------------------------------------------------
(* The methods. *)

Init ==
    /\ width = 0
    /\ height = 0
    /\ cells = with_capacity(0)
    /\ state = "unbuilt"
    /\ op = "none"

\* Universe::new(width, height); random[i] is whether the i-th draw of
\* Math.random() is below 0.5.
new(w, h, random) ==
    /\ state = "unbuilt"
    /\ width' = w
    /\ height' = h
    /\ cells' = [i \in DOMAIN with_capacity(w * h) |-> random[i]]
    /\ state' = "live"
    /\ op' = "new"

\* Universe::new_with_spaceship(width, height)
new_with_spaceship(w, h) ==
    /\ state = "unbuilt"
    /\ width' = w
    /\ height' = h
    /\ cells' = IF glider_ok(w, h)
                THEN glider_cells(w, h, with_capacity(w * h), w \div 2, h \div 2)
                ELSE with_capacity(w * h)
    /\ state' = IF glider_ok(w, h) THEN "live" ELSE "panicked"
    /\ op' = "new_with_spaceship"

set_width(w) ==
    /\ state = "live"
    /\ width' = w
    /\ cells' = resize_cells(cells, w * height)
    /\ op' = "set_width"
    /\ UNCHANGED <<height, state>>

set_height(h) ==
    /\ state = "live"
    /\ height' = h
    /\ cells' = resize_cells(cells, width * h)
    /\ op' = "set_height"
    /\ UNCHANGED <<width, state>>

tick ==
    /\ state = "live"
    /\ cells' = tick_cells(width, height, cells)
    /\ op' = "tick"
    /\ UNCHANGED <<width, height, state>>

new_glider_at(row, column) ==
    /\ state = "live"
    /\ cells' = IF glider_ok(width, height)
                THEN glider_cells(width, height, cells, row, column)
                ELSE cells
    /\ state' = IF glider_ok(width, height) THEN "live" ELSE "panicked"
    /\ op' = "new_glider_at"
    /\ UNCHANGED <<width, height>>

set_cells(list) ==
    /\ state = "live"
    /\ LET r == set_cells_from(width, cells, list, 1)
       IN  /\ cells' = r.cells
           /\ state' = IF r.ok THEN "live" ELSE "panicked"
    /\ op' = "set_cells"
    /\ UNCHANGED <<width, height>>

----------------------------------------------------------------------------
(* The general specification: every method, on small universes. *)

Dims == 0..MaxDim
Pairs == Dims \X Dims
CellLists == UNION {[1..n -> Pairs] : n \in 0..MaxList}

Next ==
    \/ \E w \in Dims, h \in Dims :
          /\ w * h <= MaxSize
          /\ \E random \in [0..(w * h - 1) -> BOOLEAN] : new(w, h, random)
    \/ \E w \in Dims, h \in Dims : w * h <= MaxSize /\ new_with_spaceship(w, h)
    \/ \E w \in Dims : w * height <= MaxSize /\ set_width(w)
    \/ \E h \in Dims : width * h <= MaxSize /\ set_height(h)
    \/ tick
    \/ \E row \in Dims, column \in Dims : new_glider_at(row, column)
    \/ \E list \in CellLists : set_cells(list)

Spec == Init /\ [][Next]_vars

----------------------------------------------------------------------------
(* The board specification: an all-dead board of 3..MaxBoard rows and       *)
(* columns (new, every draw at or above 0.5) or new_with_spaceship; one      *)
(* seeding of the all-dead board by new_glider_at or set_cells; then ticks   *)
(* of the seeded glider.                                                     *)

BoardDims == 3..MaxBoard
Coords == 0..MaxBoard

NextBoard ==
    \/ \E w \in BoardDims, h \in BoardDims :
          new(w, h, [i \in 0..(w * h - 1) |-> FALSE])
    \/ \E w \in BoardDims, h \in BoardDims : new_with_spaceship(w, h)
    \/ \E row \in Coords, column \in Coords :
          op = "new" /\ new_glider_at(row, column)
    \/ \E list \in CellLists : op = "new" /\ set_cells(list)
    \/ op \in {"new_glider_at", "new_with_spaceship", "tick"} /\ tick

SpecBoard == Init /\ [][NextBoard]_vars

----------------------------------------------------------------------------
(* Vocabulary of the properties. *)

Rows == 0..(height - 1)
Cols == 0..(width - 1)
Grid == Rows \X Cols

\* Whether cell (row, column) of bit set bs is alive, on the current grid.
alive(bs, row, column) == get(bs, get_index(width, row, column))

LiveSet(bs) == {p \in Grid : alive(bs, p[1], p[2])}
AllDead(bs) == LiveSet(bs) = {}

\* The toroidal wrap of a (possibly negative) row and column.
Wrap(row, column) == <<row % height, column % width>>

\* The 8 offsets of the Moore neighbourhood.
Offsets == ({-1, 0, 1} \X {-1, 0, 1}) \ {<<0, 0>>}

\* The number of the 8 wrapped Moore neighbours of (row, column) that are
\* alive, the centre cell itself never counted.
MooreCount(bs, row, column) ==
    Cardinality({d \in Offsets :
        LET n == Wrap(row + d[1], column + d[2])
        IN  n # <<row, column>> /\ alive(bs, n[1], n[2])})

\* The rule table: alive next iff alive with 2 or 3 live neighbours, or
\* dead with exactly 3.
RuleTable(cell, n) == (cell /\ n \in {2, 3}) \/ (~cell /\ n = 3)

\* The cells a glider seeded at (row, column) makes alive.
GliderSet(row, column) ==
    {Wrap(row + d[1], column + d[2]) :
        d \in {<<-1, 0>>, <<-1, 1>>, <<0, -1>>, <<0, 1>>, <<1, 1>>}}

Translate(S, dr, dc) == {Wrap(p[1] + dr, p[2] + dc) : p \in S}

Tick4(bs) ==
    tick_cells(width, height,
        tick_cells(width, height,
            tick_cells(width, height, tick_cells(width, height, bs))))

----------------------------------------------------------------------------
(* The claims. *)

\* C1: in every reachable state the length of the cell bit sequence
\* equals width * height, also after set_width or set_height to a smaller
\* value.
C1_LengthIsWidthTimesHeight ==
    state = "live" => len(cells) = width * height

\* C2: after one tick every cell (row, column) holds the rule-table result
\* of its state and its neighbour count in the grid before the tick.
C2_TickAppliesRuleTable ==
    [][op' = "tick" =>
        \A row \in Rows, col \in Cols :
            alive(cells', row, col) =
                RuleTable(alive(cells, row, col),
                          live_neighbor_count(width, height, cells, row, col))]_vars

\* A tick has acted on a grid of at least 2 x 3 and left live and dead cells.
C2_Witness ==
    /\ op = "tick" /\ state = "live"
    /\ width >= 3 /\ height >= 2
    /\ LiveSet(cells) # {} /\ LiveSet(cells) # Grid

\* C3: for every non-zero width and height and every in-range cell,
\* live_neighbor_count is in 0..8, is the number of live cells among the 8
\* wrapped Moore neighbours, and the centre cell never contributes.
C3_CountIsMooreCount ==
    state = "live" =>
        \A row \in Rows, col \in Cols :
            LET n == live_neighbor_count(width, height, cells, row, col)
            IN  n \in 0..8 /\ n = MooreCount(cells, row, col)

\* C4: after set_width or set_height every cell of the grid is dead, and a
\* following tick leaves every cell dead.
C4_ResizeResets ==
    (state = "live" /\ op \in {"set_width", "set_height"}) =>
        AllDead(cells) /\ AllDead(tick_cells(width, height, cells))

\* set_width has shrunk a grid that had live cells: a live bit of the old
\* grid is left beyond the new one.
C4_Witness ==
    /\ op = "set_width" /\ state = "live"
    /\ width >= 1 /\ height >= 1
    /\ \E i \in DOMAIN cells : cells[i]

\* Whether a list of pairs names a cell outside the grid.
OutOfRange(list) ==
    \E k \in 1..Len(list) : list[k][1] >= height \/ list[k][2] >= width

\* C5: set_cells with a pair whose row >= height or column >= width
\* panics and marks no cell of the grid alive.
C5_OutOfRangePanics ==
    [][\A list \in CellLists :
        (OutOfRange(list) /\ set_cells(list)) =>
            state' = "panicked" /\ LiveSet(cells') = LiveSet(cells)]_vars

\* C8: a constructor called with width = 0 or height = 0 completes and
\* yields a universe of zero cells.
C8_ZeroDimensionConstructs ==
    (op \in {"new", "new_with_spaceship"} /\ (width = 0 \/ height = 0)) =>
        state = "live" /\ len(cells) = 0

\* C6: on an all-dead grid of at least 3 x 3, new_glider_at(row, column)
\* for an in-range (row, column) leaves exactly 5 live cells, those at the
\* wrapped offsets (-1,0), (-1,+1), (0,-1), (0,+1), (+1,+1).
C6_GliderSeed ==
    [][\A row \in Rows, col \in Cols :
        (width >= 3 /\ height >= 3 /\ AllDead(cells) /\ new_glider_at(row, col)) =>
            /\ LiveSet(cells') = GliderSet(row, col)
            /\ Cardinality(LiveSet(cells')) = 5]_vars

\* new_glider_at has seeded the corner (0, 0): the glider wraps over both
\* edges.
C6_Witness ==
    /\ op = "new_glider_at" /\ state = "live"
    /\ width >= 3 /\ height >= 3
    /\ LiveSet(cells) = GliderSet(0, 0)
    /\ <<height - 1, 1>> \in LiveSet(cells) /\ <<0, width - 1>> \in LiveSet(cells)

\* C7: new_with_spaceship(width, height) centres the glider on row
\* height / 2, column width / 2, also when width # height.
C7_GliderAtCentre ==
    (op = "new_with_spaceship" /\ state = "live") =>
        LiveSet(cells) = GliderSet(height \div 2, width \div 2)

\* The 3 x 3 grid whose only live cell is (0, 0).
OnlyOriginAlive ==
    state = "live" /\ width = 3 /\ height = 3 /\ LiveSet(cells) = {<<0, 0>>}

\* C9, as stated: on the 3 x 3 grid whose only live cell is (0, 0),
\* live_neighbor_count(2, 2) = 1 and live_neighbor_count(1, 1) = 0.
C9_AsStated ==
    OnlyOriginAlive =>
        /\ live_neighbor_count(width, height, cells, 2, 2) = 1
        /\ live_neighbor_count(width, height, cells, 1, 1) = 0

\* C9, amended: on the 3 x 3 grid whose only live cell is (0, 0),
\* live_neighbor_count(2, 2) = 1 and live_neighbor_count(1, 1) = 1: on a
\* torus of 3 x 3 every other cell is a neighbour of (1, 1).
C9_OriginCounts ==
    OnlyOriginAlive =>
        /\ live_neighbor_count(width, height, cells, 2, 2) = 1
        /\ live_neighbor_count(width, height, cells, 1, 1) = 1

\* set_cells has made (0, 0) the only live cell of a 3 x 3 grid.
C9_Witness == OnlyOriginAlive /\ op = "set_cells"

\* A grid of at least 5 x 5 that holds one seeded glider, ticked or not.
GliderBoard ==
    /\ state = "live" /\ width >= 5 /\ height >= 5
    /\ op \in {"new_glider_at", "new_with_spaceship", "tick"}

\* C10: on a grid of at least 5 x 5 that was all dead but for one seeded
\* glider, every state reached by ticks has exactly 5 live cells, and 4
\* more ticks translate the live cells by one row (up) and one column
\* (right) on the torus.
C10_GliderTranslates ==
    GliderBoard =>
        /\ Cardinality(LiveSet(cells)) = 5
        /\ LiveSet(Tick4(cells)) = Translate(LiveSet(cells), -1, 1)

\* A ticked glider that lies across the top and bottom edge of the board.
C10_Witness ==
    /\ GliderBoard /\ op = "tick"
    /\ \E c1 \in Cols, c2 \in Cols :
          <<0, c1>> \in LiveSet(cells) /\ <<height - 1, c2>> \in LiveSet(cells)

====
